---- MODULE Spec2Model ----
(***************************************************************************)
(* CommitModel of src/ui/CommitList.cpp: the paginated commit walk, the    *)
(* frontier of lineages (mParents), the row store (mRows), the graph       *)
(* columns of every row and the asynchronous status computation.           *)
(*                                                                         *)
(* Conventions.  Commits are the numbers 1..n of a repository, NoCommit    *)
(* (0) is the invalid git::Commit().  Lists are 1-based: lane i of the     *)
(* source is position i+1 here, and indexOf yields 0 where the source      *)
(* yields -1.  Colors are numbers: 1..PaletteSize is the theme's palette,  *)
(* kTaintedColor the fixed gray, InvalidColor the default QColor().        *)
(***************************************************************************)
EXTENDS Integers, Sequences, FiniteSets, TLC

(***************************************************************************)
(* Bounds of the model.                                                    *)
(***************************************************************************)
MaxCommits == 2
MaxGraphCommits == 3
PaletteSize == 2
MaxProgress == 1
MaxBatches == 2
MaxLaneCommits == 5
MaxOctopusCommits == 4

(***************************************************************************)
(* Program constants.                                                      *)
(***************************************************************************)
BatchLimit == 64
kTaintedColor == 0
InvalidColor == -1
NoCommit == 0

VARIABLES
  repo,          \* the repository behind mRepo: commits and their parents
  mRef,          \* selected reference
  mPathspec,     \* path filter ("" = none)
  mSortDate, mCleanStatus, mGraphVisible,   \* walker settings
  mWalker,       \* walk handle: validity and the commits still to deliver
  mParents,      \* the frontier: lineages of the next row
  mRows,         \* the row store
  mStatus,       \* future watcher of the status computation
  mCanceled,     \* DiffCallbacks::mCanceled
  mTimer,        \* progress timer active
  mProgress,     \* progress counter
  emitted,       \* the arguments of the statusFinished notifications
                 \* emitted since the status computation was last started
  history,       \* history: for every row, the frontier before and after it
  batches,       \* history: rows appended by every fetchMore on a valid walk
                 \*          since the reset
  walkLength,    \* history: commits the walk had to deliver at the reset
  exhausted      \* history: a fetchMore has found the walk exhausted

vars == <<repo, mRef, mPathspec, mSortDate, mCleanStatus,
          mGraphVisible, mWalker, mParents, mRows, mStatus, mCanceled,
          mTimer, mProgress, emitted, history, batches, walkLength,
          exhausted>>

settingsVars == <<mSortDate, mCleanStatus, mGraphVisible>>
statusVars == <<mStatus, mCanceled, mTimer, mProgress, emitted>>
walkVars == <<mWalker, mParents, mRows, history, batches, walkLength,
              exhausted>>

(***************************************************************************)
(* Generic helpers on sequences.                                           *)
(***************************************************************************)
Range(s) == {s[i] : i \in DOMAIN s}

RemoveAt(s, i) == SubSeq(s, 1, i - 1) \o SubSeq(s, i + 1, Len(s))

InsertAt(s, i, e) == SubSeq(s, 1, i - 1) \o <<e>> \o SubSeq(s, i, Len(s))

\* All sequences of distinct elements of S (ordered parent lists).
RECURSIVE OrderedSubsets(_)
OrderedSubsets(S) ==
  {<<>>} \cup UNION {{<<x>> \o t : t \in OrderedSubsets(S \ {x})} : x \in S}

(***************************************************************************)
(* Data model.                                                             *)
(***************************************************************************)
Palette == [i \in 1..PaletteSize |-> i]

Parent(commit, color, tainted) ==
  [commit |-> commit, color |-> color, tainted |-> tainted]

\* Faulty variant of taintedColor: the commit is not consulted.
taintedColorAlways(parent, commit) ==
  IF parent.tainted THEN kTaintedColor ELSE parent.color

\* Parent::taintedColor(commit)
taintedColor(parent, commit) ==
  IF parent.tainted /\ parent.commit # commit THEN kTaintedColor
  ELSE parent.color

Segment(segment, color) == [segment |-> segment, color |-> color]

Row(commit, cols) == [commit |-> commit, columns |-> cols]

NoRef == [valid |-> FALSE, head |-> FALSE, target |-> NoCommit]

Reference(head, target) == [valid |-> TRUE, head |-> head, target |-> target]

\* git::Reference::qualifiedName: one HEAD and one branch exist.
qualifiedName(ref) == IF ref.head THEN "HEAD" ELSE "refs/heads/b"

InvalidWalker == [valid |-> FALSE, rest |-> <<>>]

(***************************************************************************)
(* The repository and the revision walk (git::Commit, git::RevWalk).       *)
(* The repository is the part of the history that the pushed references    *)
(* reach (the selected reference, its upstream, MERGE_HEAD, every other    *)
(* reference under mRefsAll): a walk delivers all of its commits.  Commit  *)
(* k's parents are later commits, so 1, 2, .., n is a topological order.   *)
(***************************************************************************)
Commits(r) == 1..r.n

\* git::Commit::parents()
parentsOf(r, commit) == r.parents[commit]

\* A commit is returned under a path filter when it touches the path.
Touches(commit, pathspec) == pathspec = "" \/ commit % 2 = 1

Reverse(s) == [i \in 1..Len(s) |-> s[Len(s) + 1 - i]]

\* The commits a new walk will deliver, in delivery order: children before
\* parents when the sort is topological and by (skewed) commit date, oldest
\* first, otherwise; restricted to the commits the path filter keeps.
WalkOutput(r, topological, pathspec) ==
  LET Keep(c) == Touches(c, pathspec)
  IN  SelectSeq(IF topological THEN [c \in 1..r.n |-> c]
                ELSE Reverse([c \in 1..r.n |-> c]), Keep)

\* git::RevWalk::next: the next commit of the walk, none when the walk is
\* exhausted or the handle is invalid.
WalkerNext(walker) ==
  IF walker.valid /\ walker.rest # <<>> THEN Head(walker.rest) ELSE NoCommit

WalkerAdvance(walker) ==
  IF walker.valid /\ walker.rest # <<>>
  THEN [walker EXCEPT !.rest = Tail(@)] ELSE walker

(***************************************************************************)
(* CommitModel::indexOf, contains, nextColor.                              *)
(***************************************************************************)
indexOf(parents, commit) ==
  IF \E i \in DOMAIN parents : parents[i].commit = commit
  THEN CHOOSE i \in DOMAIN parents :
         /\ parents[i].commit = commit
         /\ \A j \in 1..(i - 1) : parents[j].commit # commit
  ELSE 0

contains(commit, rows, allRows) ==
  \/ \E i \in DOMAIN allRows : allRows[i].commit = commit
  \/ \E i \in DOMAIN rows : rows[i].commit = commit

\* Number of lineages of the frontier that use a color.
ColorCount(parents, color) ==
  Cardinality({i \in DOMAIN parents : parents[i].color = color})

\* Faulty variant of nextColorFrom: the last color of the palette with
\* the count.
RECURSIVE nextColorFromLast(_, _)
nextColorFromLast(parents, count) ==
  IF \E k \in DOMAIN Palette : ColorCount(parents, Palette[k]) = count
  THEN Palette[CHOOSE k \in DOMAIN Palette :
         /\ ColorCount(parents, Palette[k]) = count
         /\ \A j \in (k + 1)..Len(Palette) :
              ColorCount(parents, Palette[j]) # count]
  ELSE nextColorFromLast(parents, count + 1)

RECURSIVE nextColorFrom(_, _)
nextColorFrom(parents, count) ==
  IF \E k \in DOMAIN Palette : ColorCount(parents, Palette[k]) = count
  THEN Palette[CHOOSE k \in DOMAIN Palette :
         /\ ColorCount(parents, Palette[k]) = count
         /\ \A j \in 1..(k - 1) : ColorCount(parents, Palette[j]) # count]
  ELSE nextColorFrom(parents, count + 1)

\* Faulty variant of nextColor: the first unused color, none when every
\* color is in use.
nextColorUnused(parents) ==
  IF \E k \in DOMAIN Palette : ColorCount(parents, Palette[k]) = 0
  THEN nextColorFrom(parents, 0)
  ELSE InvalidColor

\* Faulty variant of nextColor: the first color of the palette, always.
nextColorFirst(parents) == Palette[1]

nextColor(parents) == nextColorFrom(parents, 0)

(***************************************************************************)
(* CommitModel::columns.  parents is the snapshot of the current row,      *)
(* next the frontier of the next row (the member mParents of the source).  *)
(* The result carries the columns and whether a column index outside the   *)
(* column vector was written.                                              *)
(***************************************************************************)
AddSegment(cols, i, seg) == [cols EXCEPT ![i] = Append(@, seg)]

\* Faulty variant of AddCross: the lanes between are not crossed.
AddCrossNone(cols, lo, hi, seg) == cols

AddCross(cols, lo, hi, seg) ==
  [j \in DOMAIN cols |-> IF lo < j /\ j < hi THEN Append(cols[j], seg)
                          ELSE cols[j]]

\* Faulty variant of Route: a path to the left is drawn with the segments
\* of a path to the right.
RouteSwapped(acc, i, index, color) ==
  IF index < i THEN
    [acc EXCEPT !.columns =
       AddSegment(AddCross(AddSegment(@, index, Segment("LeftIn", color)),
                           index, i, Segment("Cross", color)),
                  i, Segment("RightOut", color))]
  ELSE IF index > i THEN
    IF index > Len(acc.columns) + 1 THEN [acc EXCEPT !.oob = TRUE]
    ELSE LET out == AddCross(AddSegment(acc.columns, i,
                                        Segment("RightOut", color)),
                             i, index, Segment("Cross", color))
             grown == IF index = Len(out) + 1 THEN Append(out, <<>>) ELSE out
         IN  [acc EXCEPT !.columns =
                AddSegment(grown, index, Segment("LeftIn", color))]
  ELSE [acc EXCEPT !.columns =
          AddSegment(@, index, Segment("Bottom", color))]

\* One path from lane i to lane index of the next row.
Route(acc, i, index, color) ==
  IF index < i THEN
    [acc EXCEPT !.columns =
       AddSegment(AddCross(AddSegment(@, index, Segment("RightIn", color)),
                           index, i, Segment("Cross", color)),
                  i, Segment("LeftOut", color))]
  ELSE IF index > i THEN
    IF index > Len(acc.columns) + 1 THEN [acc EXCEPT !.oob = TRUE]
    ELSE LET out == AddCross(AddSegment(acc.columns, i,
                                        Segment("RightOut", color)),
                             i, index, Segment("Cross", color))
             grown == IF index = Len(out) + 1 THEN Append(out, <<>>) ELSE out
         IN  [acc EXCEPT !.columns =
                AddSegment(grown, index, Segment("LeftIn", color))]
  ELSE [acc EXCEPT !.columns =
          AddSegment(@, index, Segment("Bottom", color))]

\* Faulty variant of Successors: every lane continues to the parents of
\* its commit.
SuccessorsOfParents(r, parent, commit) == parentsOf(r, parent.commit)

\* The successors of a lane: the parents of the row's commit for the lane
\* of that commit, the lane's own commit otherwise.
Successors(r, parent, commit) ==
  IF parent.commit = commit THEN parentsOf(r, parent.commit)
  ELSE <<parent.commit>>

\* Faulty variant of RouteSuccessors: every path has the color of the lane
\* it leaves.
RECURSIVE RouteSuccessorsSource(_, _, _, _, _, _, _)
RouteSuccessorsSource(acc, i, parent, commit, successors, k, next) ==
  IF k > Len(successors) THEN acc
  ELSE LET index == indexOf(next, successors[k])
       IN  IF index = 0
           THEN RouteSuccessorsSource(acc, i, parent, commit, successors,
                                      k + 1, next)
           ELSE RouteSuccessorsSource(
                  Route(acc, i, index, taintedColor(parent, commit)), i,
                  parent, commit, successors, k + 1, next)

\* "Add a path to each successor": the paths of one lane, a path for every
\* successor that has a lane in the next row.
RECURSIVE RouteSuccessors(_, _, _, _, _, _, _)
RouteSuccessors(acc, i, parent, commit, successors, k, next) ==
  IF k > Len(successors) THEN acc
  ELSE LET index == indexOf(next, successors[k])
           single == Len(successors) = 1
           color == IF single THEN taintedColor(parent, commit)
                    ELSE next[index].color
       IN  IF index = 0
           THEN RouteSuccessors(acc, i, parent, commit, successors, k + 1, next)
           ELSE RouteSuccessors(Route(acc, i, index, color), i, parent,
                                commit, successors, k + 1, next)

RECURSIVE RouteLanes(_, _, _, _, _, _)
RouteLanes(acc, r, commit, parents, i, next) ==
  IF i > Len(parents) THEN acc
  ELSE RouteLanes(
         RouteSuccessors(acc, i, parents[i], commit,
                         Successors(r, parents[i], commit), 1, next),
         r, commit, parents, i + 1, next)

\* Faulty variant of Incoming: the lane of a root gets a Top as well.
IncomingAll(count, root) == count

\* Number of lanes that get an incoming Top segment.
Incoming(count, root) == IF root THEN count - 1 ELSE count

\* The midline segment of a lane.
Midline(parent, commit) ==
  Segment(IF parent.commit = commit THEN "Dot" ELSE "Middle",
          taintedColor(parent, NoCommit))

\* Faulty variant of StartColumns: the vector has a column for every
\* incoming path only.
StartColumnsIncoming(parents, root) ==
  [i \in 1..Incoming(Len(parents), root) |->
     <<Segment("Top", taintedColor(parents[i], NoCommit))>>]

\* Faulty variant of StartColumns: the lane of a root is taken to be the
\* first one.
StartColumnsRootFirst(parents, root) ==
  [i \in 1..Len(parents) |->
     IF i > Len(parents) - Incoming(Len(parents), root)
     THEN <<Segment("Top", taintedColor(parents[i], NoCommit))>>
     ELSE <<>>]

\* The column vector, one column for every lane of the snapshot, with the
\* incoming paths added.
StartColumns(parents, root) ==
  [i \in 1..Len(parents) |->
     IF i <= Incoming(Len(parents), root)
     THEN <<Segment("Top", taintedColor(parents[i], NoCommit))>>
     ELSE <<>>]

\* Faulty variant of columnsRun: the midline is added before the outgoing
\* paths.
columnsRunMidlineFirst(r, commit, parents, root, next) ==
  RouteLanes([columns |-> [i \in 1..Len(parents) |->
                             Append(StartColumns(parents, root)[i],
                                    Midline(parents[i], commit))],
              oob |-> FALSE],
             r, commit, parents, 1, next)

columnsRun(r, commit, parents, root, next) ==
  LET count == Len(parents)
      routed == RouteLanes([columns |-> StartColumns(parents, root),
                            oob |-> FALSE],
                           r, commit, parents, 1, next)
  IN  [routed EXCEPT !.columns =
         [i \in DOMAIN @ |->
            IF i <= count THEN Append(@[i], Midline(parents[i], commit))
            ELSE @[i]]]

columns(r, commit, parents, root, next) ==
  columnsRun(r, commit, parents, root, next).columns

(***************************************************************************)
(* CommitModel::fetchMore.                                                 *)
(***************************************************************************)
\* Faulty variant of Replacements: a parent gets a lane of its own even
\* when the frontier holds it already.
ReplacementsAnyLane(r, commit, parents, rows, allRows) ==
  LET Fresh(p) == ~contains(p, rows, allRows)
  IN  SelectSeq(parentsOf(r, commit), Fresh)

\* The parents of the commit that get a lane of their own: those neither in
\* the frontier nor already emitted.
Replacements(r, commit, parents, rows, allRows) ==
  LET Fresh(p) == indexOf(parents, p) = 0 /\ ~contains(p, rows, allRows)
  IN  SelectSeq(parentsOf(r, commit), Fresh)

\* Faulty variant of AppendReplacements: the last replacement is appended
\* first.
RECURSIVE AppendReplacementsReversed(_, _)
AppendReplacementsReversed(parents, replacements) ==
  IF replacements = <<>> THEN parents
  ELSE AppendReplacementsReversed(
         Append(parents, Parent(replacements[Len(replacements)],
                                nextColor(parents), FALSE)),
         SubSeq(replacements, 1, Len(replacements) - 1))

\* The further replacements are appended in their order, each with the
\* next color of the frontier it is appended to.
RECURSIVE AppendReplacements(_, _)
AppendReplacements(parents, replacements) ==
  IF replacements = <<>> THEN parents
  ELSE AppendReplacements(
         Append(parents, Parent(Head(replacements), nextColor(parents), FALSE)),
         Tail(replacements))

\* Faulty variant of ReplaceCommit: a lane without a replacement stays.
ReplaceCommitKept(parents, commit, replacements) ==
  LET index == indexOf(parents, commit)
  IN  IF index = 0 \/ replacements = <<>> THEN parents
      ELSE AppendReplacements(
             InsertAt(RemoveAt(parents, index), index,
                      Parent(Head(replacements), parents[index].color, FALSE)),
             Tail(replacements))

\* Faulty variant of ReplaceCommit: the first replacement gets a color of
\* its own.
ReplaceCommitRecolored(parents, commit, replacements) ==
  LET index == indexOf(parents, commit)
  IN  IF index = 0 THEN parents
      ELSE LET taken == RemoveAt(parents, index)
           IN  IF replacements = <<>> THEN taken
               ELSE AppendReplacements(
                      InsertAt(taken, index,
                               Parent(Head(replacements), nextColor(taken),
                                      FALSE)),
                      Tail(replacements))

\* "Set parents for next row": the lane of the commit is taken out; the
\* first replacement takes its place and color, the others are appended.
ReplaceCommit(parents, commit, replacements) ==
  LET index == indexOf(parents, commit)
  IN  IF index = 0 THEN parents
      ELSE LET parent == parents[index]
               taken == RemoveAt(parents, index)
           IN  IF replacements = <<>> THEN taken
               ELSE AppendReplacements(
                      InsertAt(taken, index,
                               Parent(Head(replacements), parent.color, FALSE)),
                      Tail(replacements))

\* Faulty variant of AddRoot: the commit gets a new lane whether it has one
\* or not.
AddRootAlways(parents, commit) ==
  Append(parents, Parent(commit, nextColor(parents), FALSE))

\* "Add root commits": a commit without a lane gets a new one.
AddRoot(parents, commit) ==
  IF indexOf(parents, commit) = 0
  THEN Append(parents, Parent(commit, nextColor(parents), FALSE))
  ELSE parents

\* The graph row is computed only when the graph is shown unfiltered.
GraphRow(r, commit, parents, root, next, graphVisible, pathspec) ==
  IF graphVisible /\ pathspec = ""
  THEN columnsRun(r, commit, parents, root, next)
  ELSE [columns |-> <<>>, oob |-> FALSE]

\* "Bail out": the test that ends a batch, on the counter before i++.
BailOut(i) == i >= BatchLimit

\* The body of the loop for one commit.  st holds the locals and members
\* the loop works on: mParents, rows, the walker, i and the commit.
BodyResult(st, root, parents, next, row) ==
  [st EXCEPT !.mParents = next,
             !.rows = Append(@, Row(st.commit, row.columns)),
             !.hist = Append(@, [snapshot |-> parents, next |-> next,
                                 root |-> root, oob |-> row.oob])]

BodyLayout(r, st, root, parents, next, graphVisible, pathspec) ==
  BodyResult(st, root, parents, next,
             GraphRow(r, st.commit, parents, root, next, graphVisible,
                      pathspec))

BodyReplace(r, st, root, parents, replacements, graphVisible, pathspec) ==
  BodyLayout(r, st, root, parents,
             ReplaceCommit(parents, st.commit, replacements),
             graphVisible, pathspec)

BodyParents(r, st, allRows, root, parents, graphVisible, pathspec) ==
  BodyReplace(r, st, root, parents,
              Replacements(r, st.commit, parents, st.rows, allRows),
              graphVisible, pathspec)

LoopBody(r, st, allRows, graphVisible, pathspec) ==
  BodyParents(r, st, allRows, indexOf(st.mParents, st.commit) = 0,
              AddRoot(st.mParents, st.commit), graphVisible, pathspec)

\* The end of a turn: "if (i++ >= 64) break", else the next commit.
LoopNext(st) ==
  IF BailOut(st.i) THEN [st EXCEPT !.i = @ + 1, !.bailed = TRUE]
  ELSE [st EXCEPT !.i = @ + 1,
                  !.commit = WalkerNext(st.walker),
                  !.walker = WalkerAdvance(st.walker)]

\* One turn of the loop: nothing once the walk has returned no commit or
\* the loop was left by the break.
LoopTurn(r, st, allRows, graphVisible, pathspec) ==
  IF st.commit = NoCommit \/ st.bailed THEN st
  ELSE LoopNext(LoopBody(r, st, allRows, graphVisible, pathspec))

\* The loop, four turns at a time, every turn on the value of the turn
\* before, until the walk returns no commit or the break is taken.
Turns2(r, st, a, g, p) ==
  CHOOSE y \in {LoopTurn(r, x, a, g, p) : x \in {LoopTurn(r, st, a, g, p)}} : TRUE
Turns4(r, st, a, g, p) ==
  CHOOSE y \in {Turns2(r, x, a, g, p) : x \in {Turns2(r, st, a, g, p)}} : TRUE

RECURSIVE FetchLoop(_, _, _, _, _)
FetchLoop(r, st, allRows, graphVisible, pathspec) ==
  IF st.commit = NoCommit \/ st.bailed THEN st
  ELSE CHOOSE y \in {FetchLoop(r, x, allRows, graphVisible, pathspec) :
                       x \in {Turns4(r, st, allRows, graphVisible, pathspec)}}
         : TRUE

\* Faulty variant of UpdateModel: the new rows go in front of the old.
UpdateModelFront(allRows, rows) == rows \o allRows

\* Faulty variant of UpdateModel: the new rows take the place of the old.
UpdateModelReplace(allRows, rows) == IF rows # <<>> THEN rows ELSE allRows

\* The rows the loop has collected are appended to the row store.
UpdateModel(allRows, rows) == IF rows # <<>> THEN allRows \o rows ELSE allRows

\* Faulty variant of InvalidateWalker: the handle is kept.
InvalidateWalkerKept(walker, commit) == walker

\* "Invalidate walker": after the loop, on the last commit it pulled.
InvalidateWalker(walker, commit) ==
  IF commit = NoCommit THEN InvalidWalker ELSE walker

\* fetchMore as a function of the members it reads; m holds mParents, mRows,
\* mWalker and the history variables.
FetchStart(m) ==
  [mParents |-> m.mParents, rows |-> <<>>, hist |-> <<>>, i |-> 0,
   bailed |-> FALSE, commit |-> WalkerNext(m.mWalker),
   walker |-> WalkerAdvance(m.mWalker)]

FetchResult(m, st) ==
  [m EXCEPT !.mParents = st.mParents,
            !.mRows = UpdateModel(@, st.rows),
            !.mWalker = InvalidateWalker(st.walker, st.commit),
            !.history = @ \o st.hist,
            !.batches = IF m.mWalker.valid THEN Append(@, Len(st.rows))
                        ELSE @,
            !.exhausted = @ \/ (m.mWalker.valid /\ st.commit = NoCommit)]

fetchMore(r, m, graphVisible, pathspec) ==
  FetchResult(m, FetchLoop(r, FetchStart(m), m.mRows, graphVisible, pathspec))

canFetchMore(walker) == walker.valid

(***************************************************************************)
(* The status computation: mStatus is the QFutureWatcher.  Its state is    *)
(* "running" while the worker computes, "done" once the worker has         *)
(* finished and the finished notification is queued, "canceled" once       *)
(* cancelStatus has replaced the future by a default one (whose finished   *)
(* notification is queued too) and "finished" once the notification has    *)
(* been delivered, which is also the state of a watcher without a future.  *)
(* inflight is the number of workers that compute a status diff and id     *)
(* tells the computation of the watcher's future from the one before it.   *)
(***************************************************************************)
NoStatus == [state |-> "finished", result |-> "none", inflight |-> 0, id |-> 0]

isFinished(watcher) == watcher.state = "finished"

isRunning(watcher) == watcher.state = "running"

\* CommitModel::status().isValid()
statusIsValid(watcher) == isFinished(watcher) /\ watcher.result = "valid"

\* Faulty variant of cancelStatus: the worker is not waited for.
cancelStatusNoWait(watcher) ==
  IF ~isRunning(watcher) THEN watcher
  ELSE [watcher EXCEPT !.state = "canceled", !.result = "none"]

\* Faulty variant of cancelStatus: the future is replaced whether a
\* computation is running or not.
cancelStatusAlways(watcher) ==
  [watcher EXCEPT !.state = "canceled", !.result = "none", !.inflight = 0]

\* The watcher after cancelStatus: nothing unless a computation is running;
\* else the worker is waited for and the future is replaced by a default
\* one.
cancelStatus(watcher) ==
  IF ~isRunning(watcher) THEN watcher
  ELSE [watcher EXCEPT !.state = "canceled", !.result = "none",
                       !.inflight = @ - 1]

\* Faulty variant of cancelFlag: the flag is not cleared after the wait.
cancelFlagLeftSet(watcher, canceled) ==
  IF ~isRunning(watcher) THEN canceled ELSE TRUE

\* DiffCallbacks::mCanceled after cancelStatus: untouched unless a
\* computation is running; else it is set for the worker and cleared after
\* waitForFinished.  The worker reads the flag unsynchronised while it is
\* set: whether it sees the request and stops or computes to its end,
\* the wait returns once it has stopped and its future is replaced.
cancelFlag(watcher, canceled) ==
  IF ~isRunning(watcher) THEN canceled ELSE FALSE

\* DiffCallbacks::progress: the diff goes on unless the flag is set.
progress(canceled) == ~canceled

\* The watcher after startStatus, on the watcher cancelStatus has left: a
\* new worker computes for a new future.
startStatus(watcher) ==
  [state |-> "running", result |-> "none", inflight |-> watcher.inflight + 1,
   id |-> 1 - watcher.id]

\* Faulty variant of RestartsStatus: every notification restarts.
RestartsStatusAlways(ref) == TRUE

\* "Status is invalid after HEAD changes": whether resetReference starts
\* the status computation anew.
RestartsStatus(ref) == ~ref.valid \/ ref.head

(***************************************************************************)
(* CommitModel::resetWalker as a function of the members it reads.         *)
(***************************************************************************)
\* Faulty variant of StatusRowShown: the path filter is not consulted.
StatusRowShownFiltered(ref, pathspec, cleanStatus, watcher) ==
  LET head == ~ref.valid \/ ref.head
      valid == cleanStatus \/ ~isFinished(watcher) \/ statusIsValid(watcher)
  IN  head /\ valid

\* "Update status row": whether the status row is shown.
StatusRowShown(ref, pathspec, cleanStatus, watcher) ==
  LET head == ~ref.valid \/ ref.head
      valid == cleanStatus \/ ~isFinished(watcher) \/ statusIsValid(watcher)
  IN  head /\ valid /\ pathspec = ""

\* Faulty variant of StatusRowLinked: the state of the status computation
\* is not consulted.
StatusRowLinkedPending(ref, pathspec, cleanStatus, graphVisible, watcher) ==
  /\ StatusRowShown(ref, pathspec, cleanStatus, watcher)
  /\ graphVisible /\ ref.valid

\* Whether the status row is linked to the graph by a tainted lineage.
StatusRowLinked(ref, pathspec, cleanStatus, graphVisible, watcher) ==
  /\ StatusRowShown(ref, pathspec, cleanStatus, watcher)
  /\ graphVisible /\ ref.valid /\ isFinished(watcher)

StatusColumn ==
  <<Segment("Bottom", kTaintedColor), Segment("Dot", InvalidColor)>>

\* The sort of the walk is topological unless the graph is hidden and the
\* commits are sorted by date.
Topological(graphVisible, sortDate) == graphVisible \/ ~sortDate

\* "Begin walking commits": a valid reference gets a new walk; otherwise
\* the member is left as it is.
BeginWalk(r, ref, graphVisible, sortDate, pathspec, walker) ==
  IF ref.valid
  THEN [valid |-> TRUE,
        rest |-> WalkOutput(r, Topological(graphVisible, sortDate), pathspec)]
  ELSE walker

\* Faulty variant of FirstFetch: the reset returns without fetching.
FirstFetchSkipped(r, m, graphVisible, pathspec) == m

\* The first fetchMore of a reset.
FirstFetch(r, m, graphVisible, pathspec) ==
  IF canFetchMore(m.mWalker) THEN fetchMore(r, m, graphVisible, pathspec)
  ELSE m

\* The frontier and the row store after "Update status row".
ResetParents(ref, linked) ==
  IF linked THEN <<Parent(ref.target, nextColor(<<>>), TRUE)>> ELSE <<>>

ResetRows(shown, linked) ==
  IF shown THEN <<Row(NoCommit, IF linked THEN <<StatusColumn>> ELSE <<>>)>>
  ELSE <<>>

ResetMembers(parents, rows, walker) ==
  [mParents |-> parents, mRows |-> rows, mWalker |-> walker,
   history |-> [i \in DOMAIN rows |->
                  [snapshot |-> <<>>, next |-> parents, root |-> FALSE,
                   oob |-> FALSE]],
   batches |-> <<>>,
   walkLength |-> IF walker.valid THEN Len(walker.rest) ELSE 0,
   exhausted |-> FALSE]

resetWalker(r, ref, pathspec, sortDate, cleanStatus, graphVisible, watcher, walker) ==
  FirstFetch(r,
    ResetMembers(
      ResetParents(ref, StatusRowLinked(ref, pathspec, cleanStatus,
                                        graphVisible, watcher)),
      ResetRows(StatusRowShown(ref, pathspec, cleanStatus, watcher),
                StatusRowLinked(ref, pathspec, cleanStatus, graphVisible,
                                watcher)),
      BeginWalk(r, ref, graphVisible, sortDate, pathspec, walker)),
    graphVisible, pathspec)

\* The members a reset or a fetchMore leaves behind.
SetMembers(m) ==
  /\ mParents' = m.mParents
  /\ mRows' = m.mRows
  /\ mWalker' = m.mWalker
  /\ history' = m.history
  /\ batches' = m.batches
  /\ walkLength' = m.walkLength
  /\ exhausted' = m.exhausted

\* The reset with the members as they are after the step's assignments.
ResetTo(ref, pathspec, sortDate, cleanStatus, graphVisible, watcher) ==
  SetMembers(resetWalker(repo, ref, pathspec, sortDate, cleanStatus,
                         graphVisible, watcher, mWalker))

(***************************************************************************)
(* Inputs.                                                                 *)
(***************************************************************************)
\* The references of a repository: HEAD at the first or the second commit
\* and a branch at the first commit.
References(r) ==
  {Reference(TRUE, t) : t \in {1, 2} \cap Commits(r)} \cup {Reference(FALSE, 1)}

Pathspecs == {"", "src"}

\* Every assignment of ordered parent lists to the commits k..n, the
\* parents of a commit being later commits.
RECURSIVE ParentLists(_, _)
ParentLists(k, n) ==
  IF k > n THEN {<<>>}
  ELSE {<<p>> \o rest : p \in OrderedSubsets((k + 1)..n),
                        rest \in ParentLists(k + 1, n)}

\* Every repository of at most max commits.
RepositoriesUpTo(max) ==
  UNION {[n : {n}, parents : ParentLists(1, n)] : n \in 1..max}

Repositories == RepositoriesUpTo(MaxCommits)

GraphRepositories == RepositoriesUpTo(MaxGraphCommits)

\* A linear history of n commits.
Chain(n) == [n |-> n, parents |-> [k \in 1..n |-> IF k < n THEN <<k + 1>>
                                                   ELSE <<>>]]

\* Linear histories whose length is around a multiple of the batch.
LongRepositories ==
  {Chain(b * (BatchLimit + 1) + d) : b \in 1..MaxBatches, d \in {-1, 0, 1}}

\* The parent lists of the commits k..n of a history of plain commits and
\* of merges of two, the parents being among the three commits that follow.
RECURSIVE LaneParentLists(_, _)
LaneParentLists(k, n) ==
  IF k > n THEN {<<>>}
  ELSE {<<p>> \o rest :
          p \in {q \in OrderedSubsets({c \in (k + 1)..n : c <= k + 3}) :
                   Len(q) <= 2},
          rest \in LaneParentLists(k + 1, n)}

\* Histories of MaxLaneCommits commits with forks and merges that the
\* first two commits reach: every later commit is the parent of another.
LaneRepositories ==
  {r \in [n : {MaxLaneCommits}, parents : LaneParentLists(1, MaxLaneCommits)] :
     \A k \in 3..r.n : \E j \in 1..(k - 1) : k \in Range(r.parents[j])}

\* Histories of MaxOctopusCommits commits with a merge of three or more
\* parents, the parents of a commit being any later commits.
OctopusRepositories ==
  {r \in [n : {MaxOctopusCommits}, parents : ParentLists(1, MaxOctopusCommits)] :
     \E k \in 1..r.n : Len(r.parents[k]) >= 3}

(***************************************************************************)
(* Initial state: the constructor has loaded the settings (resetSettings   *)
(* without a walk); nothing is selected and nothing is walked.             *)
(***************************************************************************)
InitMembers ==
  /\ mRef = NoRef
  /\ mPathspec = ""
  /\ mSortDate \in BOOLEAN
  /\ mCleanStatus \in BOOLEAN
  /\ mGraphVisible \in BOOLEAN
  /\ mWalker = InvalidWalker
  /\ mParents = <<>>
  /\ mRows = <<>>
  /\ mStatus = NoStatus
  /\ mCanceled = FALSE
  /\ mTimer = FALSE
  /\ mProgress = 0
  /\ emitted = <<>>
  /\ history = <<>>
  /\ batches = <<>>
  /\ walkLength = 0
  /\ exhausted = FALSE

Init == repo \in Repositories /\ InitMembers

InitGraph == repo \in GraphRepositories /\ InitMembers

InitLong ==
  /\ repo \in LongRepositories
  /\ InitMembers
  /\ mSortDate

InitOctopus ==
  /\ repo \in OctopusRepositories
  /\ InitMembers
  /\ mSortDate
  /\ mGraphVisible

InitLanes ==
  /\ repo \in LaneRepositories
  /\ InitMembers
  /\ mSortDate
  /\ mGraphVisible

(***************************************************************************)
(* Operations.                                                             *)
(***************************************************************************)
\* setReference(ref)
SetReference(ref) ==
  /\ mRef' = ref
  /\ ResetTo(ref, mPathspec, mSortDate, mCleanStatus,
             mGraphVisible, mStatus)
  /\ UNCHANGED <<repo, mPathspec, settingsVars, statusVars>>

\* resetReference(ref): the referenceUpdated notification.
ResetReference(ref) ==
  LET updated == IF ref.valid /\ mRef.valid
                    /\ qualifiedName(ref) = qualifiedName(mRef)
                 THEN ref ELSE mRef
      restart == RestartsStatus(ref)
      watcher == IF restart THEN startStatus(cancelStatus(mStatus))
                 ELSE mStatus
  IN  /\ mRef' = updated
      /\ mStatus' = watcher
      /\ mProgress' = IF restart THEN 0 ELSE mProgress
      /\ mTimer' = IF restart THEN TRUE ELSE mTimer
      /\ mCanceled' = IF restart THEN cancelFlag(mStatus, mCanceled)
                      ELSE mCanceled
      /\ ResetTo(updated, mPathspec, mSortDate, mCleanStatus,
                 mGraphVisible, watcher)
      /\ emitted' = IF restart THEN <<>> ELSE emitted
      /\ UNCHANGED <<repo, mPathspec, settingsVars>>

\* The workdirChanged notification: resetReference(mRef).
WorkdirChanged == ResetReference(mRef)

\* setPathspec(pathspec)
SetPathspec(pathspec) ==
  /\ mPathspec # pathspec
  /\ mPathspec' = pathspec
  /\ ResetTo(mRef, pathspec, mSortDate, mCleanStatus,
             mGraphVisible, mStatus)
  /\ UNCHANGED <<repo, mRef, settingsVars, statusVars>>

\* resetSettings(true): the settings are read and the walk is reset.
ResetSettings(sortDate, cleanStatus, graphVisible) ==
  /\ mSortDate' = sortDate
  /\ mCleanStatus' = cleanStatus
  /\ mGraphVisible' = graphVisible
  /\ ResetTo(mRef, mPathspec, sortDate, cleanStatus, graphVisible, mStatus)
  /\ UNCHANGED <<repo, mRef, mPathspec, statusVars>>

\* fetchMore()
FetchMore ==
  /\ SetMembers(fetchMore(repo, [mParents |-> mParents, mRows |-> mRows,
                                 mWalker |-> mWalker, history |-> history,
                                 batches |-> batches,
                                 walkLength |-> walkLength,
                                 exhausted |-> exhausted],
                          mGraphVisible, mPathspec))
  /\ UNCHANGED <<repo, mRef, mPathspec, settingsVars, statusVars>>

\* Faulty variant of TimerTick: the first row is republished as a new
\* status row.
TimerTickRepublished ==
  /\ mTimer
  /\ mProgress < MaxProgress
  /\ mProgress' = mProgress + 1
  /\ mRows' = <<Row(NoCommit, <<>>)>> \o (IF mRows = <<>> THEN <<>> ELSE Tail(mRows))
  /\ UNCHANGED <<repo, mRef, mPathspec, settingsVars, mWalker, mParents,
                 history, batches, walkLength, exhausted, mStatus, mCanceled,
                 mTimer, emitted>>

\* The progress timer fires: the counter is incremented and the first row
\* is announced as changed.
TimerTick ==
  /\ mTimer
  /\ mProgress < MaxProgress
  /\ mProgress' = mProgress + 1
  /\ UNCHANGED <<repo, mRef, mPathspec, settingsVars, walkVars, mStatus,
                 mCanceled, mTimer, emitted>>

\* cancelStatus() called from the list.
CancelStatus ==
  /\ mStatus' = cancelStatus(mStatus)
  /\ mCanceled' = cancelFlag(mStatus, mCanceled)
  /\ UNCHANGED <<repo, mRef, mPathspec, settingsVars, walkVars, mTimer,
                 mProgress, emitted>>

\* The worker completes the status diff: the diff is valid or not, and
\* not when a progress callback has stopped it.
WorkerFinish(valid) ==
  /\ isRunning(mStatus)
  /\ mStatus' = [mStatus EXCEPT !.state = "done",
                                !.result = IF valid /\ progress(mCanceled)
                                           THEN "valid" ELSE "invalid",
                                !.inflight = @ - 1]
  /\ UNCHANGED <<repo, mRef, mPathspec, settingsVars, walkVars, mCanceled,
                 mTimer, mProgress, emitted>>

\* Faulty variant of StatusFinishedVisible: true for any rows.
StatusFinishedVisibleAny(rows) == rows # <<>>

\* The argument of statusFinished: the first row is the status row.
StatusFinishedVisible(rows) == rows # <<>> /\ rows[1].commit = NoCommit

\* The watcher's finished notification is delivered: the timer is stopped,
\* the walk is reset and statusFinished is emitted.
StatusFinished ==
  /\ mStatus.state \in {"done", "canceled"}
  /\ mStatus' = [mStatus EXCEPT !.state = "finished"]
  /\ mTimer' = FALSE
  /\ ResetTo(mRef, mPathspec, mSortDate, mCleanStatus,
             mGraphVisible, [mStatus EXCEPT !.state = "finished"])
  /\ emitted' = <<StatusFinishedVisible(mRows')>>
  /\ UNCHANGED <<repo, mRef, mPathspec, settingsVars, mCanceled, mProgress>>

Next ==
  \/ \E ref \in References(repo) \cup {NoRef} : SetReference(ref)
  \/ \E ref \in References(repo) \cup {NoRef} : ResetReference(ref)
  \/ WorkdirChanged
  \/ \E pathspec \in Pathspecs : SetPathspec(pathspec)
  \/ \E sortDate, cleanStatus, graphVisible \in BOOLEAN :
       ResetSettings(sortDate, cleanStatus, graphVisible)
  \/ FetchMore
  \/ TimerTick
  \/ CancelStatus
  \/ \E valid \in BOOLEAN : WorkerFinish(valid)
  \/ StatusFinished

Spec == Init /\ [][Next]_vars

\* The walk and the graph alone, on larger repositories: the operations
\* that select what is walked and fetchMore; no status computation is
\* started.
NextGraph ==
  \/ \E ref \in References(repo) \cup {NoRef} : SetReference(ref)
  \/ \E pathspec \in Pathspecs : SetPathspec(pathspec)
  \/ \E sortDate, cleanStatus, graphVisible \in BOOLEAN :
       ResetSettings(sortDate, cleanStatus, graphVisible)
  \/ FetchMore

SpecGraph == InitGraph /\ [][NextGraph]_vars

\* Pagination on long linear histories: HEAD or nothing is selected, the
\* path filter is set and cleared, and rows are fetched.
NextLong ==
  \/ \E ref \in {Reference(TRUE, 1), NoRef} : SetReference(ref)
  \/ \E pathspec \in Pathspecs : SetPathspec(pathspec)
  \/ FetchMore

SpecLong == InitLong /\ [][NextLong]_vars

\* The lanes of the graph on histories with forks and merges: the graph is
\* shown, HEAD is selected at the first or the second commit, with and
\* without the status row.
NextLanes ==
  \/ \E target \in {1, 2} : SetReference(Reference(TRUE, target))
  \/ FetchMore

SpecLanes == InitLanes /\ [][NextLanes]_vars

\* The same operations on histories with merges of three or more parents.
SpecOctopus == InitOctopus /\ [][NextLanes]_vars

\* Paging through a long linear history: the list selects what is walked
\* and then calls fetchMore for as long as canFetchMore is true; once it
\* pages it resets no more.  The view keeps asking for rows while there are
\* more, so a fetchMore that stays possible is performed.
FetchWhileMore == canFetchMore(mWalker) /\ FetchMore

NextPaging ==
  \/ /\ Len(batches) <= 1
     /\ \E ref \in {Reference(TRUE, 1), NoRef} : SetReference(ref)
  \/ /\ Len(batches) <= 1
     /\ \E pathspec \in Pathspecs : SetPathspec(pathspec)
  \/ FetchWhileMore

SpecPaging == InitLong /\ [][NextPaging]_vars /\ WF_vars(FetchWhileMore)

(***************************************************************************)
(* Properties.                                                             *)
(***************************************************************************)
\* No two lineages of a frontier hold the same commit.
NoDuplicateCommit(parents) ==
  \A i, j \in DOMAIN parents : parents[i].commit = parents[j].commit => i = j

\* The row store holds the status row.
HasStatusRow == mRows # <<>> /\ mRows[1].commit = NoCommit

\* Rows that carry a commit.
CommitRows == {k \in DOMAIN mRows : mRows[k].commit # NoCommit}

RECURSIVE SumSeq(_)
SumSeq(s) == IF s = <<>> THEN 0 ELSE Head(s) + SumSeq(Tail(s))

CeilDiv(n, d) == (n + d - 1) \div d

\* C1: after resetWalker and after any number of fetchMore calls, no two
\* entries of the frontier hold the same commit: the frontier as it is, and
\* the frontier before and after every row that was emitted.
C1_FrontierUnique ==
  /\ NoDuplicateCommit(mParents)
  /\ \A k \in DOMAIN history :
       /\ NoDuplicateCommit(history[k].snapshot)
       /\ NoDuplicateCommit(history[k].next)

\* A row of a commit one of whose parents was in the frontier already, on a
\* frontier of several lanes.
C1_Witness ==
  \E k \in CommitRows :
    /\ Len(history[k].snapshot) >= 2
    /\ Len(history[k].next) >= 1
    /\ \E p \in Range(parentsOf(repo, mRows[k].commit)) :
         indexOf(history[k].snapshot, p) # 0

\* C2: a single fetchMore pulls at most 64 commits from the walk and
\* appends at most 64 rows, whatever the length of the walk.
C2_BatchAtMostLimit == \A k \in DOMAIN batches : batches[k] <= BatchLimit

\* C3: a walk of N commits is exhausted by exactly ceil(N/64) fetchMore
\* calls, the one of the reset included; every call but the last appends 64
\* rows and the last the remainder.
C3_CallsToExhaust ==
  exhausted =>
    LET calls == Len(batches)
    IN  /\ calls = CeilDiv(walkLength, BatchLimit)
        /\ \A k \in 1..calls :
             batches[k] = IF k < calls THEN BatchLimit
                          ELSE walkLength - BatchLimit * (calls - 1)

\* C4: once a fetchMore has found the walk exhausted, canFetchMore is false,
\* and a further fetchMore leaves it false and the number of rows unchanged.
C4_ExhaustedStays ==
  [][/\ exhausted' => ~canFetchMore(mWalker')
     /\ (exhausted /\ FetchMore) =>
          /\ exhausted'
          /\ ~canFetchMore(mWalker')
          /\ Len(mRows') = Len(mRows)]_vars

\* A walk that a later fetchMore, not the reset, has found exhausted.
C4_Witness ==
  exhausted /\ ~canFetchMore(mWalker) /\ Len(batches) >= 2
    /\ Len(mRows) > BatchLimit

\* C5: with no valid reference selected, the reset leaves the frontier
\* empty, the row store empty and no valid walk handle, whatever the state
\* before the reset was.  Every state without a valid reference is the
\* initial state or follows a reset with that reference by steps that do
\* nothing on such a state.
C5_InvalidRefLeavesNothing ==
  ~mRef.valid =>
    /\ mParents = <<>>
    /\ mRows = <<>>
    /\ ~canFetchMore(mWalker)

\* C6: every reset discards the previous frontier and rows and performs one
\* fetchMore, so that the row store is never empty while canFetchMore is
\* true: the rows are the status row and those of the fetches since the
\* reset, the first commit row starts from the seed of the reset alone, and
\* a walk that was begun has been fetched from.
C6_NeverEmptyButFetchable ==
  /\ ~(mRows = <<>> /\ canFetchMore(mWalker))
  /\ Len(mRows) = SumSeq(batches) + (IF HasStatusRow THEN 1 ELSE 0)
  /\ \A k \in CommitRows :
       (k = 1 \/ (k = 2 /\ HasStatusRow)) =>
         \A i \in DOMAIN history[k].snapshot :
           \/ history[k].snapshot[i].tainted
           \/ history[k].snapshot[i].commit = mRows[k].commit
  /\ mRef.valid => batches # <<>>

\* The state a reset leaves when the walk is longer than a batch: rows are
\* there and more can be fetched.
C6_Witness ==
  Len(batches) = 1 /\ canFetchMore(mWalker) /\ Len(mRows) >= BatchLimit

\* The status computation has not announced its end.
Pending(watcher) == ~isFinished(watcher)

\* The status computation has ended with a diff that is not empty.
NonEmptyDiff(watcher) == isFinished(watcher) /\ watcher.result = "valid"

\* The condition of the status row, on the members as they are.
StatusRowDue ==
  /\ ~mRef.valid \/ mRef.head
  /\ mCleanStatus \/ Pending(mStatus) \/ NonEmptyDiff(mStatus)
  /\ mPathspec = ""

\* C7: after a reset the status row is present exactly when the selected
\* reference is HEAD or none is selected, the clean-status setting is on
\* or the status computation is pending or has returned a non-empty diff,
\* and no path filter is active.  The first step that changes the state
\* the constructor leaves is a reset, and what the condition reads changes
\* only in steps that reset, so it holds after every step.
C7_StatusRowIff == [][HasStatusRow' <=> StatusRowDue']_vars

\* The status row shown above commits for a pending status computation
\* alone.
C7_Witness ==
  HasStatusRow /\ Len(mRows) >= 2 /\ ~mCleanStatus /\ isRunning(mStatus)

\* C8: at most one row is without a commit and it is the first one;
\* fetchMore leaves it where and as it is.
C8_StatusRowFirst ==
  [][/\ \A k \in DOMAIN mRows' : mRows'[k].commit = NoCommit => k = 1
     /\ (HasStatusRow /\ FetchMore) =>
          mRows' # <<>> /\ mRows'[1] = mRows[1]]_vars

\* The status row above the rows of several batches.
C8_Witness ==
  HasStatusRow /\ Len(batches) >= 2 /\ Len(mRows) > BatchLimit + 1

\* C9: fetchMore only appends: the rows there were are the first rows
\* there are, unchanged.
C9_AppendOnly ==
  [][FetchMore =>
       /\ Len(mRows') >= Len(mRows)
       /\ SubSeq(mRows', 1, Len(mRows)) = mRows]_vars

\* A second batch appended below the rows of the first.
C9_Witness ==
  Len(batches) >= 2 /\ batches[1] > 0 /\ batches[2] > 0

\* C10 as stated: every commit row has at least as many columns as the
\* frontier snapshot it was computed from, under every combination of the
\* graph-visible setting and the path filter.
C10_ColumnsCoverSnapshot ==
  \A k \in CommitRows : Len(mRows[k].columns) >= Len(history[k].snapshot)

\* C10 amended: with the graph shown and no path filter, every commit row
\* has at least as many columns as the frontier snapshot it was computed
\* from; with the graph hidden or a path filter, it has no columns.
C10_ColumnsCoverSnapshotShown ==
  \A k \in CommitRows :
    IF mGraphVisible /\ mPathspec = ""
    THEN Len(mRows[k].columns) >= Len(history[k].snapshot)
    ELSE mRows[k].columns = <<>>

\* A row of a freshly appended root lane beside another lane, in the graph.
C10_Witness ==
  /\ mGraphVisible /\ mPathspec = ""
  /\ \E k \in CommitRows :
       /\ history[k].root
       /\ Len(history[k].snapshot) >= 2
       /\ Len(mRows[k].columns) >= 2

\* The segment kinds of a column, in the order they were added.
Kinds(column) == [i \in DOMAIN column |-> column[i].segment]

\* A linear chain laid out in the graph from an empty frontier: the reset
\* has seeded no lineage.
ChainLaidOut ==
  /\ repo = Chain(repo.n)
  /\ mGraphVisible /\ mPathspec = ""
  /\ \A k \in DOMAIN mRows \ CommitRows : history[k].next = <<>>

\* C11 as stated: in a linear chain laid out from an empty frontier every
\* row has one column, [Top, Dot] for every interior commit and [Dot] for
\* the last, parentless one.
C11_ChainColumns ==
  ChainLaidOut =>
    \A k \in CommitRows :
      /\ Len(mRows[k].columns) = 1
      /\ (1 < mRows[k].commit /\ mRows[k].commit < repo.n) =>
            Kinds(mRows[k].columns[1]) = <<"Top", "Dot">>
      /\ (1 < mRows[k].commit /\ mRows[k].commit = repo.n) =>
            Kinds(mRows[k].columns[1]) = <<"Dot">>

\* C11 amended: in a linear chain laid out from an empty frontier every
\* row has one column: Top unless the commit is the first of the chain,
\* then Bottom unless it is the last, parentless one, then Dot.
C11_ChainColumnsBottom ==
  ChainLaidOut =>
    \A k \in CommitRows :
      /\ Len(mRows[k].columns) = 1
      /\ Kinds(mRows[k].columns[1]) =
           (IF mRows[k].commit = 1 THEN <<>> ELSE <<"Top">>)
             \o (IF mRows[k].commit = repo.n THEN <<>> ELSE <<"Bottom">>)
             \o <<"Dot">>

\* A chain with a first, interior and a last commit, laid out whole.
C11_Witness ==
  ChainLaidOut /\ repo.n >= 3 /\ Cardinality(CommitRows) = repo.n

\* The commits of the rows above row k.
EmittedBefore(k) == {mRows[j].commit : j \in 1..(k - 1)}

\* The parents of the commit of row k that were neither in the frontier
\* snapshot of the row nor emitted above it, in parent order.
FreshParents(k) ==
  LET Fresh(p) == /\ indexOf(history[k].snapshot, p) = 0
                  /\ p \notin EmittedBefore(k)
  IN  SelectSeq(parentsOf(repo, mRows[k].commit), Fresh)

\* Row k is that of a commit with two parents, both fresh.
FanOut(k) ==
  /\ k \in CommitRows
  /\ mGraphVisible /\ mPathspec = ""
  /\ Len(parentsOf(repo, mRows[k].commit)) = 2
  /\ FreshParents(k) = parentsOf(repo, mRows[k].commit)

HasKind(column, kind) == \E i \in DOMAIN column : column[i].segment = kind

\* C12: a commit at lane i with two parents, neither in the frontier nor
\* emitted, leaves the first parent at lane i and the second as the new
\* last lane; its row has RightOut in column i, LeftIn in the column of the
\* new lane and a Cross in every column strictly between them.
C12_MergeFanOut ==
  \A k \in DOMAIN mRows :
    FanOut(k) =>
      LET i == indexOf(history[k].snapshot, mRows[k].commit)
          parents == parentsOf(repo, mRows[k].commit)
          next == history[k].next
          last == Len(history[k].snapshot) + 1
      IN  /\ Len(next) = last
          /\ next[i].commit = parents[1]
          /\ next[last].commit = parents[2]
          /\ Len(mRows[k].columns) = last
          /\ HasKind(mRows[k].columns[i], "RightOut")
          /\ HasKind(mRows[k].columns[last], "LeftIn")
          /\ \A j \in (i + 1)..(last - 1) :
               HasKind(mRows[k].columns[j], "Cross")

\* A fan-out with a lane between the commit's lane and the new lane.
C12_Witness ==
  \E k \in DOMAIN mRows :
    /\ FanOut(k)
    /\ indexOf(history[k].snapshot, mRows[k].commit) < Len(history[k].snapshot)

\* The usage counts of the palette colors in a frontier differ by at most 1.
Balanced(parents) ==
  \A a, b \in Range(Palette) :
    ColorCount(parents, a) - ColorCount(parents, b) <= 1

\* A color of the palette that no color of the palette is used less than.
LeastUsed(parents, color) ==
  /\ color \in Range(Palette)
  /\ \A c \in Range(Palette) :
       ColorCount(parents, color) <= ColorCount(parents, c)

\* The lanes of the frontier after row k that were appended for further
\* fresh parents of its commit.
AppendedLanes(k) == (Len(history[k].snapshot) + 1)..Len(history[k].next)

\* C13 as stated: at all times the usage counts of the palette colors
\* across the frontier differ by at most 1.
C13_ColorsBalanced ==
  /\ Balanced(mParents)
  /\ \A k \in DOMAIN history :
       Balanced(history[k].snapshot) /\ Balanced(history[k].next)

\* C13 amended: every new lineage (the lane of a root, the lane of a
\* further fresh parent, the seed of the reset) gets a color that no
\* palette color is used less than in the frontier it is added to, so a
\* freed color is reused before a color in use; the counts themselves may
\* differ by more than 1 once lineages have terminated.
C13_NewLaneLeastUsed ==
  \A k \in DOMAIN history :
    /\ k \notin CommitRows =>
         \A q \in DOMAIN history[k].next :
           LeastUsed(SubSeq(history[k].next, 1, q - 1), history[k].next[q].color)
    /\ history[k].root =>
         LeastUsed(SubSeq(history[k].snapshot, 1, Len(history[k].snapshot) - 1),
                   history[k].snapshot[Len(history[k].snapshot)].color)
    /\ \A q \in AppendedLanes(k) :
         LeastUsed(SubSeq(history[k].next, 1, q - 1), history[k].next[q].color)

\* A new lane takes a color that an earlier row had in use and that has
\* been freed since.
C13_Witness ==
  \E k \in CommitRows : \E q \in AppendedLanes(k) : \E j \in 1..(k - 1) :
    /\ ColorCount(SubSeq(history[k].next, 1, q - 1), history[k].next[q].color) = 0
    /\ ColorCount(history[j].snapshot, history[k].next[q].color) > 0
    /\ q >= 2

\* Every frontier the program has had: the member and the frontier before
\* and after every row.
Frontiers ==
  {mParents} \cup {history[k].snapshot : k \in DOMAIN history}
             \cup {history[k].next : k \in DOMAIN history}

\* The first color, in palette order, whose number of uses in the frontier
\* is the minimum over the palette.
FirstLeastUsed(parents) ==
  Palette[CHOOSE k \in DOMAIN Palette :
            /\ LeastUsed(parents, Palette[k])
            /\ \A j \in 1..(k - 1) : ~LeastUsed(parents, Palette[j])]

\* C14: nextColor is a function of the frontier and the palette alone: the
\* first color in palette order whose number of uses in the frontier is
\* the minimum over the palette; and that is the color every new lane got.
C14_NextColorFirstLeastUsed ==
  /\ \A f \in Frontiers : nextColor(f) = FirstLeastUsed(f)
  /\ \A k \in DOMAIN history : \A q \in AppendedLanes(k) :
       history[k].next[q].color =
         FirstLeastUsed(SubSeq(history[k].next, 1, q - 1))

\* A frontier on which every color is in use and the first color is not
\* the least used one.
C14_Witness ==
  \E f \in Frontiers :
    /\ \A c \in Range(Palette) : ColorCount(f, c) >= 1
    /\ nextColor(f) # Palette[1]

\* C15: nextColor returns a color of the palette for every frontier, also
\* for one of more lineages than the palette has colors; every lane has a
\* palette color.
C15_NextColorInPalette ==
  \A f \in Frontiers :
    /\ nextColor(f) \in Range(Palette)
    /\ \A q \in DOMAIN f : f[q].color \in Range(Palette)

\* A frontier of more lineages than the palette has colors.
C15_Witness == \E f \in Frontiers : Len(f) > PaletteSize

\* C16: processing a commit leaves every lineage that is carried forward
\* in the frontier with its color, also when its lane index shifts; the
\* first fresh parent takes the lane of the commit with the lane's color;
\* and the frontier goes unchanged from one row to the next.
C16_LineageColorStable ==
  \A k \in CommitRows :
    LET snapshot == history[k].snapshot
        next == history[k].next
        commit == mRows[k].commit
        lane == indexOf(snapshot, commit)
    IN  /\ \A i \in DOMAIN snapshot :
             snapshot[i].commit # commit =>
               \E j \in DOMAIN next :
                 /\ next[j].commit = snapshot[i].commit
                 /\ next[j].color = snapshot[i].color
        /\ FreshParents(k) # <<>> =>
             /\ lane \in DOMAIN next
             /\ next[lane].commit = Head(FreshParents(k))
             /\ next[lane].color = snapshot[lane].color
        /\ (k + 1) \in DOMAIN history =>
             SubSeq(history[k + 1].snapshot, 1, Len(next)) = next

\* A row in which a carried lineage moves to a lower lane, and a row in
\* which the first fresh parent takes over a lane whose color is not the
\* one a new lane would get.
C16_Witness ==
  /\ \E k \in CommitRows : \E i \in DOMAIN history[k].snapshot :
       /\ history[k].snapshot[i].commit # mRows[k].commit
       /\ indexOf(history[k].next, history[k].snapshot[i].commit) \in 1..(i - 1)
  /\ \E k \in CommitRows :
       LET lane == indexOf(history[k].snapshot, mRows[k].commit)
       IN  /\ FreshParents(k) # <<>>
           /\ history[k].snapshot[lane].color
                # nextColor(RemoveAt(history[k].snapshot, lane))

\* The members a second reset would leave, right after a step.
ResetAgain ==
  resetWalker(repo', mRef', mPathspec', mSortDate', mCleanStatus', mGraphVisible', mStatus', mWalker')

\* C17: a reset that follows a reset with the same settings, reference,
\* status state and commits produces the same rows and the same frontier.
\* A step that leaves at most one batch is a reset; the second reset is
\* applied to the state it leaves.
C17_ResetTwiceSame ==
  [][Len(batches') <= 1 =>
       /\ ResetAgain.mRows = mRows'
       /\ ResetAgain.mParents = mParents']_vars

\* C18: at most one status computation is in flight: a worker computes
\* exactly while the watcher's future is running, whatever the order of
\* startStatus, cancelStatus, notifications and the worker's completion.
C18_OneStatusInFlight ==
  mStatus.inflight = IF isRunning(mStatus) THEN 1 ELSE 0

\* A computation that is not the first one is running.
C18_Witness == isRunning(mStatus) /\ mStatus.id = 0 /\ mProgress >= 1

\* C19: cancelStatus on a running computation returns with the worker
\* stopped, nothing in flight and no result available; cancelStatus with
\* nothing running changes no state.
C19_CancelStops ==
  [][CancelStatus =>
       IF isRunning(mStatus)
       THEN /\ mStatus'.inflight = 0
            /\ ~isRunning(mStatus')
            /\ ~statusIsValid(mStatus')
            /\ mStatus'.result = "none"
       ELSE UNCHANGED vars]_vars

\* A canceled computation whose notification is still to be delivered.
C19_Witness == mStatus.state = "canceled" /\ mStatus.inflight = 0

\* The resets that the list asks for: setReference, setPathspec and
\* resetSettings.
PlainReset ==
  \/ \E ref \in References(repo) \cup {NoRef} : SetReference(ref)
  \/ \E pathspec \in Pathspecs : SetPathspec(pathspec)
  \/ \E sortDate, cleanStatus, graphVisible \in BOOLEAN :
       ResetSettings(sortDate, cleanStatus, graphVisible)

\* The watcher's computation is the one that was running before the step.
StillRunning == isRunning(mStatus') /\ mStatus'.id = mStatus.id

C21_FinishedNotifies ==
  [][StatusFinished =>
       /\ ~mTimer'
       /\ HasStatusRow' <=> StatusRowDue'
       /\ emitted = <<>>
       /\ emitted' = <<HasStatusRow'>>]_vars

\* The computation has ended with an empty diff: the rebuilt rows are
\* commits without a status row and the notification said so.
C21_Witness ==
  /\ emitted = <<FALSE>> /\ mRows # <<>> /\ ~HasStatusRow
  /\ isFinished(mStatus) /\ mStatus.result = "invalid" /\ ~mTimer

\* C22: a tick of the progress timer increments the progress counter and
\* leaves the frontier, the row store, the walk handle, the selected
\* reference and the path filter as they are, in every state in which the
\* timer is active.
C22_TickChangesProgressOnly ==
  [][TimerTick =>
       /\ mProgress' = mProgress + 1
       /\ UNCHANGED <<mParents, mRows, mWalker, mRef, mPathspec>>]_vars

\* The timer has ticked and is active over rows whose first is a commit
\* row, with a frontier and a path filter.
C22_Witness ==
  /\ mTimer /\ mProgress >= 1
  /\ mRows # <<>> /\ ~HasStatusRow /\ mPathspec # ""

\* C23: processing a commit found at lane k of the frontier replaces that
\* lane.  The first parent that is neither in the frontier nor emitted
\* takes lane k with the lane's color; every further such parent is
\* appended at the end with the color of nextColor; no other parent is
\* inserted; without such a parent lane k is removed and the lanes to its
\* right shift left by one.  Every other lane stays.
C23_LaneReplaced ==
  \A k \in CommitRows :
    LET snapshot == history[k].snapshot
        next == history[k].next
        lane == indexOf(snapshot, mRows[k].commit)
        fresh == FreshParents(k)
        count == Len(snapshot)
    IN  /\ lane \in 1..count
        /\ IF fresh = <<>> THEN next = RemoveAt(snapshot, lane)
           ELSE /\ Len(next) = count + Len(fresh) - 1
                /\ \A i \in 1..count : i # lane => next[i] = snapshot[i]
                /\ next[lane].commit = fresh[1]
                /\ next[lane].color = snapshot[lane].color
                /\ \A q \in 2..Len(fresh) :
                     /\ next[count + q - 1].commit = fresh[q]
                     /\ next[count + q - 1].color =
                          nextColor(SubSeq(next, 1, count + q - 2))

\* A row of a commit with two parents, one emitted above it and one that
\* takes the lane, below a row whose lane was removed.
C23_Witness ==
  /\ \E k \in CommitRows :
       /\ Len(FreshParents(k)) = 1
       /\ \E p \in Range(parentsOf(repo, mRows[k].commit)) :
            p \in EmittedBefore(k)
  /\ \E k \in CommitRows : FreshParents(k) = <<>>

\* The graph is shown and no path filter is set: rows have columns.
GraphShown == mGraphVisible /\ mPathspec = ""

\* The paths of row k: the pairs of a lane i of the snapshot and the lane j
\* of the next frontier at which a successor of lane i is found.  The
\* successors of the lane of the row's commit are that commit's parents,
\* the successor of another lane is the lane's own commit.
Paths(k) ==
  LET snapshot == history[k].snapshot
      next == history[k].next
      Succ(i) == IF snapshot[i].commit = mRows[k].commit
                 THEN Range(parentsOf(repo, mRows[k].commit))
                 ELSE {snapshot[i].commit}
  IN  {<<p[1], indexOf(next, p[2])>> : p \in
         {q \in (DOMAIN snapshot) \X Commits(repo) :
            q[2] \in Succ(q[1]) /\ indexOf(next, q[2]) # 0}}

\* The number of segments of a kind that the paths put into column c.
Routed(paths, kind, c) ==
  Cardinality({p \in paths :
    CASE kind = "RightIn" -> p[2] < p[1] /\ c = p[2]
      [] kind = "LeftOut" -> p[2] < p[1] /\ c = p[1]
      [] kind = "RightOut" -> p[2] > p[1] /\ c = p[1]
      [] kind = "LeftIn" -> p[2] > p[1] /\ c = p[2]
      [] kind = "Bottom" -> p[2] = p[1] /\ c = p[1]
      [] kind = "Cross" -> \/ p[2] < c /\ c < p[1]
                           \/ p[1] < c /\ c < p[2]})

CountKind(column, kind) ==
  Cardinality({q \in DOMAIN column : column[q].segment = kind})

RoutingKinds == {"RightIn", "LeftOut", "RightOut", "LeftIn", "Bottom", "Cross"}

\* Every path ends at a column, and the columns hold, of every routing
\* kind, the segments that the paths put there, and no other.
PathsRouted(cols, paths) ==
  /\ \A p \in paths : p[2] \in DOMAIN cols
  /\ \A c \in DOMAIN cols : \A kind \in RoutingKinds :
       CountKind(cols[c], kind) = Routed(paths, kind, c)

\* C24: in every commit row of the graph, every path from lane i of the
\* snapshot to lane j of the next frontier puts RightIn in column j, Cross
\* in every column strictly between and LeftOut in column i when j < i;
\* RightOut in column i, Cross strictly between and LeftIn in column j
\* when j > i; Bottom in column i when j = i; and the row has no other
\* routing segment.
C24_RoutingSegments ==
  GraphShown => \A k \in CommitRows : PathsRouted(mRows[k].columns, Paths(k))

\* A row with a path that crosses a lane to the left, a row with one that
\* crosses a lane to the right and a row with one straight down.
C24_Witness ==
  /\ GraphShown
  /\ \E k \in CommitRows : \E p \in Paths(k) : p[2] < p[1] - 1
  /\ \E k \in CommitRows : \E p \in Paths(k) : p[2] > p[1] + 1
  /\ \E k \in CommitRows : \E p \in Paths(k) : p[2] = p[1]

MidlineKinds == {"Dot", "Middle"}

\* C25: in every commit row of the graph, the column of every lane of the
\* snapshot ends with its one midline segment, Dot if the lane's commit is
\* the row's commit and Middle otherwise, after all routing segments of
\* the column; and a Top segment is the first segment of its column.
C25_MidlineLast ==
  GraphShown =>
    \A k \in CommitRows : \A i \in DOMAIN history[k].snapshot :
      LET column == mRows[k].columns[i]
      IN  /\ column # <<>>
          /\ column[Len(column)].segment =
               IF history[k].snapshot[i].commit = mRows[k].commit
               THEN "Dot" ELSE "Middle"
          /\ \A q \in DOMAIN column :
               /\ column[q].segment \in MidlineKinds => q = Len(column)
               /\ column[q].segment = "Top" => q = 1

\* A row in which a lane that is carried past the commit has Top, routing
\* segments and Middle, and the lane of the commit has Top, routing
\* segments and Dot.
C25_Witness ==
  /\ GraphShown
  /\ \E k \in CommitRows : \E i, j \in DOMAIN history[k].snapshot :
       /\ Len(mRows[k].columns[i]) >= 4
       /\ mRows[k].columns[i][1].segment = "Top"
       /\ mRows[k].columns[i][Len(mRows[k].columns[i])].segment = "Middle"
       /\ Len(mRows[k].columns[j]) >= 4
       /\ mRows[k].columns[j][1].segment = "Top"
       /\ mRows[k].columns[j][Len(mRows[k].columns[j])].segment = "Dot"

\* The commit of row k had a lane in the frontier that the row above it
\* (or the reset) left.
HadSlot(k) ==
  k > 1 /\ indexOf(history[k - 1].next, mRows[k].commit) # 0

\* C26: in every commit row of the graph every lane of the snapshot has a
\* Top segment, except the lane appended for the row's commit when the
\* commit had no lane in the frontier; such a commit's lane is the last of
\* the snapshot and has no Top, and a commit that had a lane has a Top in
\* its own lane.
C26_TopUnlessFreshRoot ==
  GraphShown =>
    \A k \in CommitRows :
      LET snapshot == history[k].snapshot
          own == indexOf(snapshot, mRows[k].commit)
      IN  /\ ~HadSlot(k) => own = Len(snapshot)
          /\ \A i \in DOMAIN snapshot :
               HasKind(mRows[k].columns[i], "Top") <=> (HadSlot(k) \/ i # own)

\* A row of a commit without a lane beside two other lanes, below a row of
\* a commit that had the second lane.
C26_Witness ==
  /\ GraphShown
  /\ \E k \in CommitRows : ~HadSlot(k) /\ Len(history[k].snapshot) >= 3
  /\ \E k \in CommitRows :
       HadSlot(k) /\ indexOf(history[k].snapshot, mRows[k].commit) >= 2

\* The kinds of the segments that a lane's outgoing paths put into the
\* lane's own column.
OutgoingKinds == {"Bottom", "RightOut", "LeftOut"}

\* The lanes of the snapshot of row k that are tainted.
TaintedLanes(k) == {i \in DOMAIN history[k].snapshot : history[k].snapshot[i].tainted}

\* Every segment of the kinds in the column has the color.
Colored(column, kinds, color) ==
  \A q \in DOMAIN column : column[q].segment \in kinds => column[q].color = color

\* C27 as stated: the segments of a tainted lane carry the tainted color
\* in every row of another commit, and in the row of the lineage's own
\* commit the incoming Top, the Dot and the edge that continues the lane
\* carry the lineage's assigned color.
C27_TaintedColors ==
  GraphShown =>
    \A k \in CommitRows : \A i \in TaintedLanes(k) :
      IF history[k].snapshot[i].commit # mRows[k].commit
      THEN Colored(mRows[k].columns[i], {"Top", "Middle"} \cup OutgoingKinds,
                   kTaintedColor)
      ELSE Colored(mRows[k].columns[i], {"Top", "Dot", "Bottom"},
                   history[k].snapshot[i].color)

\* C27 amended: the incoming Top and the midline segment (Middle or Dot)
\* of a tainted lane carry the tainted color in every row, the row of the
\* lineage's own commit included.  The outgoing segments of the lane carry
\* the tainted color in the rows of other commits; in the row of the
\* lineage's own commit they carry the lineage's assigned color when the
\* commit has one parent, and the edge that continues the lane carries the
\* color of the lane below when it has several.
C27_TaintedColorsOutgoing ==
  GraphShown =>
    \A k \in CommitRows : \A i \in TaintedLanes(k) :
      LET column == mRows[k].columns[i]
          lane == history[k].snapshot[i]
          parents == parentsOf(repo, mRows[k].commit)
      IN  /\ column[1] = Segment("Top", kTaintedColor)
          /\ Colored(column, {"Top", "Middle", "Dot"}, kTaintedColor)
          /\ IF lane.commit # mRows[k].commit
             THEN Colored(column, OutgoingKinds, kTaintedColor)
             ELSE IF Len(parents) = 1
             THEN Colored(column, OutgoingKinds, lane.color)
             ELSE HasKind(column, "Bottom") =>
                    Colored(column, {"Bottom"}, history[k].next[i].color)

\* The row of the tainted lineage's own commit, which has one parent and
\* continues the lane, below the row of another commit that the tainted
\* lane passes.
C27_Witness ==
  /\ GraphShown
  /\ \E k \in CommitRows : \E i \in TaintedLanes(k) :
       /\ history[k].snapshot[i].commit = mRows[k].commit
       /\ Len(parentsOf(repo, mRows[k].commit)) = 1
       /\ HasKind(mRows[k].columns[i], "Bottom")
  /\ \E k \in CommitRows : \E i \in TaintedLanes(k) :
       /\ history[k].snapshot[i].commit # mRows[k].commit
       /\ HasKind(mRows[k].columns[i], "Bottom")

\* The color C28 gives the path of row k from lane i to lane j: that of
\* lane j of the next frontier when lane i is the lane of the row's commit
\* and the commit has two or more parents; otherwise the color of lane i,
\* or the tainted color when lane i is tainted and holds another commit.
PathColor(k, i, j) ==
  LET lane == history[k].snapshot[i]
      commit == mRows[k].commit
  IN  IF lane.commit = commit /\ Len(parentsOf(repo, commit)) >= 2
      THEN history[k].next[j].color
      ELSE IF lane.tainted /\ lane.commit # commit THEN kTaintedColor
      ELSE lane.color

\* A path puts a segment of the kind into column c.
PathPuts(p, kind, c) ==
  CASE kind = "RightIn" -> p[2] < p[1] /\ c = p[2]
    [] kind = "LeftOut" -> p[2] < p[1] /\ c = p[1]
    [] kind = "RightOut" -> p[2] > p[1] /\ c = p[1]
    [] kind = "LeftIn" -> p[2] > p[1] /\ c = p[2]
    [] kind = "Bottom" -> p[2] = p[1] /\ c = p[1]
    [] kind = "Cross" -> \/ p[2] < c /\ c < p[1]
                         \/ p[1] < c /\ c < p[2]

Colors == Range(Palette) \cup {kTaintedColor, InvalidColor}

\* The columns of row k hold, of every routing kind and color, the
\* segments that the paths put there with their colors, and no other.
PathsColored(k, cols, paths) ==
  \A c \in DOMAIN cols : \A kind \in RoutingKinds : \A color \in Colors :
    Cardinality({q \in DOMAIN cols[c] : cols[c][q] = Segment(kind, color)})
      = Cardinality({p \in paths : /\ PathPuts(p, kind, c)
                                   /\ PathColor(k, p[1], p[2]) = color})

\* C28: in every commit row of the graph the routing segments of every
\* path carry the path's color: for the paths of a commit with two or more
\* parents the color of the successor's lane in the next frontier, for the
\* path of a lane with one successor the lane's tainted-aware color.
C28_RoutingColors ==
  GraphShown => \A k \in CommitRows : PathsColored(k, mRows[k].columns, Paths(k))

\* A row of a commit with two parents one of whose paths has another color
\* than the commit's lane, and a row in which a tainted lane with one
\* successor passes another commit.
C28_Witness ==
  /\ GraphShown
  /\ \E k \in CommitRows : \E p \in Paths(k) :
       /\ history[k].snapshot[p[1]].commit = mRows[k].commit
       /\ Len(parentsOf(repo, mRows[k].commit)) = 2
       /\ PathColor(k, p[1], p[2]) # history[k].snapshot[p[1]].color
  /\ \E k \in CommitRows : \E p \in Paths(k) :
       /\ history[k].snapshot[p[1]].tainted
       /\ history[k].snapshot[p[1]].commit # mRows[k].commit

\* C29: the status row has no column, or the one column [Bottom in the
\* tainted color, Dot]; it has the column exactly when the reset seeded
\* the frontier with one tainted lineage for the target of the selected
\* reference, and that exactly when the graph is visible, the reference
\* is valid and the status computation has finished.
C29_StatusRowColumn ==
  HasStatusRow =>
    LET linked == mRows[1].columns # <<>>
        seed == history[1].next
    IN  /\ linked =>
             mRows[1].columns =
               <<(<<[segment |-> "Bottom", color |-> kTaintedColor],
                    [segment |-> "Dot", color |-> InvalidColor]>>)>>
        /\ linked <=> /\ Len(seed) = 1
                      /\ seed[1].tainted
                      /\ seed[1].commit = mRef.target
        /\ ~linked => seed = <<>>
        /\ linked <=> (mGraphVisible /\ mRef.valid /\ isFinished(mStatus))

\* The status row with its column above commit rows, for a computation
\* that has finished with a diff; the graph is shown.
C29_Witness ==
  /\ HasStatusRow /\ mRows[1].columns # <<>> /\ Len(mRows) >= 3
  /\ ~mCleanStatus /\ mStatus.result = "valid"

\* The commits of the rows that carry one, in row order.
RowCommits ==
  LET IsCommit(c) == c # NoCommit
  IN  SelectSeq([k \in DOMAIN mRows |-> mRows[k].commit], IsCommit)

\* The output of the walk of the generation: that of the walk over the
\* selected reference under the settings and the path filter, nothing
\* when no reference is selected.
GenerationWalk ==
  IF mRef.valid
  THEN WalkOutput(repo, Topological(mGraphVisible, mSortDate), mPathspec)
  ELSE <<>>

\* C30: within a generation the commits of the commit rows, in row order,
\* are the prefix of the output of the generation's walk that has been
\* pulled so far: nothing is dropped or emitted twice at the boundary of
\* two batches and the order is kept.
C30_RowsAreWalkPrefix ==
  /\ Len(RowCommits) <= Len(GenerationWalk)
  /\ RowCommits = SubSeq(GenerationWalk, 1, Len(RowCommits))
  /\ canFetchMore(mWalker) =>
       Len(RowCommits) + Len(mWalker.rest) = Len(GenerationWalk)

\* Calling fetchMore for as long as canFetchMore is true leads to a state
\* in which canFetchMore is false: every call takes a commit from the
\* finite walk or invalidates the handle.
PagingEnds == canFetchMore(mWalker) ~> ~canFetchMore(mWalker)

\* C31: for a finite walk, calling fetchMore for as long as canFetchMore
\* is true ends with canFetchMore false, and whenever canFetchMore is
\* false the row store holds one row for every commit of the generation's
\* walk, in addition to the status row.
C31_PagedRowsComplete ==
  ~canFetchMore(mWalker) => Len(RowCommits) = Len(GenerationWalk)

\* C32: every commit row of the graph has exactly one Dot segment over all
\* its columns, in the column of the lane of the snapshot that holds the
\* row's commit.
C32_OneDot ==
  GraphShown =>
    \A k \in CommitRows :
      /\ indexOf(history[k].snapshot, mRows[k].commit) # 0
      /\ \A c \in DOMAIN mRows[k].columns :
           CountKind(mRows[k].columns[c], "Dot") =
             IF c = indexOf(history[k].snapshot, mRows[k].commit) THEN 1 ELSE 0

\* A row whose Dot is in a column between two others, and a row with a
\* column appended for a new lane.
C32_Witness ==
  /\ GraphShown
  /\ \E k \in CommitRows :
       /\ indexOf(history[k].snapshot, mRows[k].commit) >= 2
       /\ indexOf(history[k].snapshot, mRows[k].commit) < Len(history[k].snapshot)
  /\ \E k \in CommitRows : Len(mRows[k].columns) > Len(history[k].snapshot)

Max(a, b) == IF a >= b THEN a ELSE b

\* C33: while a row is computed, every column index that receives a
\* segment is within the column vector at that moment: no path ends
\* beyond the column after the last one, which is appended for it, also
\* in merges of three or more new parents and in rows where a lane was
\* removed.  The finished row has a column for every end of a path and no
\* more columns than the larger of the two frontiers has lanes.
C33_ColumnIndexInRange ==
  \A k \in CommitRows :
    /\ ~history[k].oob
    /\ GraphShown => \A p \in Paths(k) : p[2] \in DOMAIN mRows[k].columns
    /\ Len(mRows[k].columns) <=
         Max(Len(history[k].snapshot), Len(history[k].next))

\* A row of a merge of three new parents, for which two columns are
\* appended, and a row in which a lane was removed with a lane to its
\* right.
C33_Witness ==
  /\ GraphShown
  /\ \E k \in CommitRows :
       /\ Len(FreshParents(k)) >= 3
       /\ Len(mRows[k].columns) = Len(history[k].snapshot) + 2
  /\ \E k \in CommitRows :
       /\ Len(history[k].next) < Len(history[k].snapshot)
       /\ indexOf(history[k].snapshot, mRows[k].commit) < Len(history[k].snapshot)

\* The number of outgoing segments in a column.
Outgoing(column) ==
  Cardinality({q \in DOMAIN column : column[q].segment \in OutgoingKinds})

\* The parents of the commit of row k that have a lane in the next
\* frontier.
FoundParents(k) ==
  {p \in Range(parentsOf(repo, mRows[k].commit)) :
     indexOf(history[k].next, p) # 0}

\* The lane of the snapshot continues as the row's lanes do: a lane of
\* another commit is in the next frontier and has one outgoing segment,
\* the lane of the row's commit has one for every parent that is found.
LaneContinues(k, lane, column) ==
  IF lane.commit # mRows[k].commit
  THEN /\ indexOf(history[k].next, lane.commit) # 0
       /\ Outgoing(column) = 1
  ELSE Outgoing(column) = Cardinality(FoundParents(k))

\* C34: in every commit row of the graph, each lane that is carried
\* forward (its commit is not the row's commit) is found in the next
\* frontier and has exactly one outgoing segment (Bottom, LeftOut or
\* RightOut) in its column; a successor is missing from the next frontier,
\* and put nowhere, only when it is a parent of the row's commit: the lane
\* of the row's commit has an outgoing segment for every parent that is
\* found and none for the others.
C34_CarriedLanesContinue ==
  GraphShown =>
    \A k \in CommitRows : \A i \in DOMAIN history[k].snapshot :
      LaneContinues(k, history[k].snapshot[i], mRows[k].columns[i])

\* A row with a carried lane that moves to the left, a row with a carried
\* lane straight down, and a row with a carried lane beside the lane of a
\* commit that continues to two parents.
C34_Witness ==
  /\ GraphShown
  /\ \E k \in CommitRows : \E i \in DOMAIN history[k].snapshot :
       /\ history[k].snapshot[i].commit # mRows[k].commit
       /\ indexOf(history[k].next, history[k].snapshot[i].commit) < i
  /\ \E k \in CommitRows : \E i \in DOMAIN history[k].snapshot :
       /\ history[k].snapshot[i].commit # mRows[k].commit
       /\ indexOf(history[k].next, history[k].snapshot[i].commit) = i
  /\ \E k \in CommitRows :
       /\ Len(history[k].snapshot) >= 2
       /\ Cardinality(FoundParents(k)) = 2

\* C35: whenever cancelStatus has returned the cancel flag is false, so
\* every status computation, the one that startStatus launches right after
\* its own cancelStatus included, begins and runs with the flag clear and
\* its progress callback lets the diff go on; the flag is set only inside
\* cancelStatus, from the request until the worker has been waited for.
C35_CancelFlagClear ==
  /\ mCanceled = FALSE
  /\ isRunning(mStatus) => progress(mCanceled)

\* cancelStatus has returned from stopping a running computation, one that
\* a startStatus had launched after its own cancelStatus.
C35_Witness ==
  /\ mStatus.state = "canceled"
  /\ mStatus.id = 0
  /\ progress(mCanceled)

====
